---- MODULE Spec2Model ----
(***************************************************************************)
(* NovaMail AI autoresponder (src/gmail-automation-simplegmail.py).        *)
(*                                                                         *)
(* The program is one sequential polling loop: fetch the unread messages,  *)
(* and for each of them generate a reply text, send the reply, mark the    *)
(* message read and post a report to Telegram; an error that escapes a     *)
(* step is caught by the try/except around the whole iteration; then the   *)
(* loop sleeps and starts over.                                            *)
(*                                                                         *)
(* Texts are sequences of atoms.  An atom is a single character ("a", " ", *)
(* "\n") or one of the fixed literals of the program, kept whole.          *)
(***************************************************************************)
EXTENDS Integers, Sequences, FiniteSets, TLC

VARIABLES
    pc,               \* position of the loop
    mailbox,          \* remote mailbox: message id -> "none" | "unread" | "read"
    env,              \* TELEGRAM_TOKEN, TELEGRAM_CHAT_ID (lines 24-25)
    unread_messages,  \* the list fetched by this iteration (line 64)
    idx,              \* position of the for loop in unread_messages (line 70)
    msg,              \* the message being processed
    received_time_wib,
    body_preview,
    reply_text,
    reply_subject,
    mime_msg,
    telegram_report,
    console,          \* the last line printed to standard output
    outbox,           \* the payload of the last successful send (line 192)
    sentCount,        \* replies sent per message, over all iterations
    ai_error,         \* the error the model call raised for msg, if any
    general_error,    \* the error raised out of the iteration body, if any
    trace             \* the remote calls completed in this iteration, in order

vars == << pc, mailbox, env, unread_messages, idx, msg, received_time_wib,
           body_preview, reply_text, reply_subject, mime_msg, telegram_report,
           console, outbox, sentCount, ai_error, general_error, trace >>

----------------------------------------------------------------------------
(* Bounds of the model.                                                    *)

\* messages the mailbox can ever receive
NMsgs == 2
\* sentCount saturates here ("this many or more")
MaxCount == 2
\* longest subject of the subject specification
MaxSubjLen == 4
\* longest body of the preview specification
MaxBodyLen == 503

(* Program constants.                                                      *)

\* line 87
ConsolePreviewLen == 100
\* line 210
TelegramPreviewLen == 500
\* line 72
WibOffset == 7

MsgIds == 1..NMsgs

----------------------------------------------------------------------------
(* Optional values: None, or a text.                                       *)

None == [has |-> FALSE, val |-> <<>>]
Some(t) == [has |-> TRUE, val |-> t]

\* Python truthiness of a str-or-None value
Truthy(x) == x.has /\ x.val # <<>>

\* Python `a or b`
Or(a, b) == IF Truthy(a) THEN a ELSE b

----------------------------------------------------------------------------
(* Text operations.                                                        *)

Upper == << "A", "B", "C", "D", "E", "F", "G", "H", "I", "J", "K", "L", "M",
            "N", "O", "P", "Q", "R", "S", "T", "U", "V", "W", "X", "Y", "Z" >>
LowerAlpha == << "a", "b", "c", "d", "e", "f", "g", "h", "i", "j", "k", "l", "m",
                 "n", "o", "p", "q", "r", "s", "t", "u", "v", "w", "x", "y", "z" >>

LowerAtom(c) ==
    IF \E i \in 1..Len(Upper) : Upper[i] = c
    THEN LowerAlpha[CHOOSE i \in 1..Len(Upper) : Upper[i] = c]
    ELSE c

\* str.lower()
Lower(s) == [i \in 1..Len(s) |-> LowerAtom(s[i])]

\* `sub in s`
Contains(s, sub) ==
    \E i \in 1..(Len(s) - Len(sub) + 1) : SubSeq(s, i, i + Len(sub) - 1) = sub

\* s.startswith(p)
StartsWith(s, p) == Len(s) >= Len(p) /\ SubSeq(s, 1, Len(p)) = p

Whitespace == { " ", "\n", "\t" }

RECURSIVE LStrip(_)
LStrip(s) ==
    IF s # <<>> /\ Head(s) \in Whitespace THEN LStrip(Tail(s)) ELSE s

RECURSIVE RStrip(_)
RStrip(s) ==
    IF s # <<>> /\ s[Len(s)] \in Whitespace
    THEN RStrip(SubSeq(s, 1, Len(s) - 1))
    ELSE s

\* str.strip()
Strip(s) == RStrip(LStrip(s))

\* reply_text.replace("\n", "<br>")
RECURSIVE NlToBr(_)
NlToBr(s) ==
    IF s = <<>> THEN <<>>
    ELSE (IF Head(s) = "\n" THEN << "<", "b", "r", ">" >> ELSE << Head(s) >>)
         \o NlToBr(Tail(s))

\* s[:n]
Slice(s, n) == SubSeq(s, 1, IF Len(s) < n THEN Len(s) ELSE n)

----------------------------------------------------------------------------
(* The fixed texts of the program, each a single atom.                     *)

\* line 128
EmptyReplyText ==
    << "Apologies, I received your email but the AI failed to generate a response at this time." >>
\* line 141
FallbackText ==
    << "System Notice: The AI assistant is currently unavailable to process this request. We will get back to you manually." >>

L_InboxClean == << "Inbox is clean. (Checking again in 30 seconds)" >>
L_Thinking == << "Gemini is thinking..." >>
L_AiQuota == << "AI Error: API Quota exceeded or Rate Limited." >>
L_AiKey == << "AI Error: API Key is invalid or expired." >>
L_AiUnknown == << "AI Error: Failed to generate content due to an unknown API issue." >>
L_Replied == << "Email successfully replied and marked as READ." >>
L_TgMissing == << "Warning: Telegram credentials are missing. Skipping notification." >>
L_TgOk == << "Success: Notification sent to Telegram!" >>
L_TgRefused == << "Telegram API Refused: Status Code " >>
L_TgNetwork == << "Network Error: Failed to connect to Telegram API." >>
L_TgTimeout == << "Timeout Error: Telegram API did not respond." >>
L_TgSsl == << "SSL Error: Certificate verification failed." >>
L_TgUnknown == << "Telegram Send Failed: Unknown network error occurred." >>
L_SysAuth == << "System Error: Authentication failed. Check your token.json or credentials." >>
L_SysUnexpected ==
    << "An unexpected system error occurred. Waiting for the next polling cycle to retry -> " >>

(* The words the handlers look for in a lower-cased error text.            *)

W_quota == << "q", "u", "o", "t", "a" >>
W_429 == << "4", "2", "9" >>
W_api_key == << "a", "p", "i", "_", "k", "e", "y" >>
W_403 == << "4", "0", "3" >>
W_credentials == << "c", "r", "e", "d", "e", "n", "t", "i", "a", "l", "s" >>
W_token == << "t", "o", "k", "e", "n" >>
W_connection == << "c", "o", "n", "n", "e", "c", "t", "i", "o", "n" >>
W_dns == << "d", "n", "s" >>
W_timeout == << "t", "i", "m", "e", "o", "u", "t" >>
W_ssl == << "s", "s", "l" >>

----------------------------------------------------------------------------
(* What the remote services can answer.                                    *)

\* str(error) of the errors the model call raises
AiErrors ==
    { << "Q", "u", "o", "t", "a", " ", "h", "i", "t" >>,
      << "b", "a", "d", " ", "A", "P", "I", "_", "K", "E", "Y" >>,
      << "b", "o", "o", "m" >> }

\* model_response.text: None, blank, or a text with padding and a line break
AiResponses ==
    { None,
      Some(<< " ", "\n" >>),
      Some(<< " ", "H", "i", "\n", "y", "o", "u", "\n" >>) }

\* str(error) of the errors the mailbox provider raises (fetch, send, modify)
MailErrors ==
    { << "T", "o", "k", "e", "n", " ", "e", "x", "p", "i", "r", "e", "d" >>,
      << "O", "o", "p", "s" >>,
      << "t", "i", "m", "e", "d", " ", "o", "u", "t" >> }

\* str(error) of the errors requests.post raises
PostErrors ==
    { << "D", "N", "S" >>,
      << "T", "i", "m", "e", "o", "u", "t" >>,
      << "S", "S", "L" >>,
      << "b", "o", "o", "m" >> }

\* response.status_code
PostStatuses == { 200, 403 }

----------------------------------------------------------------------------
(* Messages.                                                               *)

HeaderKeys == { "Message-ID", "message-id", "References", "references" }

NoHeaders == [k \in HeaderKeys |-> None]

\* A message of the mailbox.  headers[k] = None stands for a key the header
\* map does not hold (dict.get answers None for it).  date.iso says whether
\* datetime.fromisoformat accepts str(msg.date).
BlankMsg ==
    [ id |-> 0, sender |-> <<>>, subject |-> <<>>, plain |-> <<>>,
      date |-> [iso |-> FALSE, hour |-> 0, utcoff |-> 0, raw |-> <<>>],
      thread_id |-> <<>>, headers |-> NoHeaders ]

\* The content of the message the mailbox holds under id: three kinds, by
\* id: a first message of a thread, a reply inside a thread whose provider
\* spells the header keys in lower case, and a message with no Message-ID.
Inbound(id) ==
    CASE id % 3 = 1 ->
           [ id |-> id, sender |-> << "a@b.com" >>,
             subject |-> << "H", "e", "l", "l", "o" >>,
             plain |-> << "h", "i", "\n", "y", "o" >>,
             date |-> [iso |-> TRUE, hour |-> 20, utcoff |-> 0,
                       raw |-> << "2024-05-01 20:00:00+00:00" >>],
             thread_id |-> << "t1" >>,
             headers |-> [NoHeaders EXCEPT !["Message-ID"] = Some(<< "<m1@x>" >>)] ]
      [] id % 3 = 2 ->
           [ id |-> id, sender |-> << "c@d.org" >>,
             subject |-> << "R", "e", ":", " ", "H", "i" >>,
             plain |-> << "o", "k" >>,
             date |-> [iso |-> FALSE, hour |-> 0, utcoff |-> 0,
                       raw |-> << "yesterday" >>],
             thread_id |-> << "t2" >>,
             headers |-> [NoHeaders EXCEPT
                            !["message-id"] = Some(<< "<m2@x>" >>),
                            !["references"] = Some(<< "<r1@x>", " ", "<r2@x>" >>)] ]
      [] OTHER ->
           [ id |-> id, sender |-> << "e@f.net" >>,
             subject |-> << "R", "E", ":", " ", "x" >>,
             plain |-> <<>>,
             date |-> [iso |-> TRUE, hour |-> 3, utcoff |-> -5,
                       raw |-> << "2024-05-01 03:00:00-05:00" >>],
             thread_id |-> << "t3" >>,
             headers |-> [NoHeaders EXCEPT !["References"] = Some(<< "<r3@x>" >>)] ]

----------------------------------------------------------------------------
(* The data shaping of one message.                                        *)

\* lines 74-83: the date in UTC+7, or the raw string when it does not parse
ReceivedTime(date) ==
    IF date.iso
    THEN << ToString((date.hour - date.utcoff + WibOffset) % 24), ":00:00 WIB" >>
    ELSE date.raw

\* A variant of Preview: a body of exactly n atoms is cut as well.
PreviewOffByOne(plain, n) ==
    IF Len(plain) >= n THEN Slice(plain, n) \o << ".", ".", "." >> ELSE plain

\* lines 87 and 210: the first n atoms and "..." when plain is longer than n
Preview(plain, n) ==
    IF Len(plain) > n THEN Slice(plain, n) \o << ".", ".", "." >> ELSE plain

\* lines 125-128: the text of a model response, or the apology when it has none
ValidatedReply(text) ==
    IF Truthy(text) /\ Len(Strip(text.val)) > 0
    THEN Strip(text.val)
    ELSE EmptyReplyText

\* lines 132-138: the line printed for an error of the model call
AiErrorLine(error) ==
    LET error_str == Lower(error) IN
    IF Contains(error_str, W_quota) \/ Contains(error_str, W_429) THEN L_AiQuota
    ELSE IF Contains(error_str, W_api_key) \/ Contains(error_str, W_403) THEN L_AiKey
    ELSE L_AiUnknown

\* A variant of AiErrorReply: the text of the error is taken as the reply.
AiErrorReplyRaw(error) == error

\* line 141: the reply text after an error of the model call
AiErrorReply(error) == FallbackText

\* A variant of ReplySubject: the prefix it adds is not the one it looks for.
ReplySubjectUpper(subject) ==
    IF StartsWith(subject, << "R", "e", ":" >>)
    THEN subject
    ELSE << "R", "E", ":", " " >> \o subject

\* line 145
ReplySubject(subject) ==
    IF StartsWith(subject, << "R", "e", ":" >>)
    THEN subject
    ELSE << "R", "e", ":", " " >> \o subject

\* A variant of ThreadingHeaders: the References chain of the original is
\* carried over even when the message has no Message-ID.
ThreadingHeadersKeepsChain(headers) ==
    LET original_message_id == Or(headers["Message-ID"], headers["message-id"])
        references == Or(headers["References"], headers["references"])
    IN  IF Truthy(original_message_id)
        THEN [ InReplyTo |-> Some(original_message_id.val),
               References |->
                   IF Truthy(references)
                   THEN Some(references.val \o << " " >> \o original_message_id.val)
                   ELSE Some(original_message_id.val) ]
        ELSE [ InReplyTo |-> None,
               References |-> IF Truthy(references) THEN references ELSE None ]

\* A variant of ThreadingHeaders: the Message-ID is appended to the chain
\* with no space between them.
ThreadingHeadersNoSpace(headers) ==
    LET original_message_id == Or(headers["Message-ID"], headers["message-id"])
        references == Or(headers["References"], headers["references"])
    IN  IF Truthy(original_message_id)
        THEN [ InReplyTo |-> Some(original_message_id.val),
               References |->
                   IF Truthy(references)
                   THEN Some(references.val \o original_message_id.val)
                   ELSE Some(original_message_id.val) ]
        ELSE [ InReplyTo |-> None, References |-> None ]

\* lines 155-177: the threading headers of the reply
ThreadingHeaders(headers) ==
    LET original_message_id == Or(headers["Message-ID"], headers["message-id"])
        references == Or(headers["References"], headers["references"])
    IN  IF Truthy(original_message_id)
        THEN [ InReplyTo |-> Some(original_message_id.val),
               References |->
                   IF Truthy(references)
                   THEN Some(references.val \o << " " >> \o original_message_id.val)
                   ELSE Some(original_message_id.val) ]
        ELSE [ InReplyTo |-> None, References |-> None ]

\* lines 148-180: the MIME message of the reply
Mime(m, subject, text) ==
    [ to |-> m.sender, from |-> << "me" >>, subject |-> subject,
      InReplyTo |-> ThreadingHeaders(m.headers).InReplyTo,
      References |-> ThreadingHeaders(m.headers).References,
      body |-> NlToBr(text) ]

NoMime ==
    [ to |-> <<>>, from |-> <<>>, subject |-> <<>>,
      InReplyTo |-> None, References |-> None, body |-> <<>> ]

\* lines 183-189: the payload of the send call (the encoding of the MIME
\* message is one to one and is left out)
Payload(m, mime) == [ raw |-> mime, threadId |-> m.thread_id ]

NoPayload == [ raw |-> NoMime, threadId |-> <<>> ]

\* line 206: the clock is not modelled
CurrentTime == << "<now> WIB" >>

\* lines 214-222
Report(m, received, preview, text) ==
    << "NOVAMAIL AI REPORT", "Received: " >> \o received
    \o << "From: " >> \o m.sender
    \o << "Subject: " >> \o m.subject
    \o << "Original Message:" >> \o preview
    \o << "AI Reply Sent:" >> \o text
    \o << "Replied At: " >> \o CurrentTime

\* lines 236-240: the line printed for an answer of the Telegram API
PostStatusLine(status_code) ==
    IF status_code = 200 THEN L_TgOk ELSE L_TgRefused \o << ToString(status_code) >>

\* lines 245-254: the line printed for an error of requests.post
PostErrorLine(e) ==
    LET error_str == Lower(e) IN
    IF Contains(error_str, W_connection) \/ Contains(error_str, W_dns) THEN L_TgNetwork
    ELSE IF Contains(error_str, W_timeout) THEN L_TgTimeout
    ELSE IF Contains(error_str, W_ssl) THEN L_TgSsl
    ELSE L_TgUnknown

\* lines 258-262: the line printed for an error caught around the iteration
GeneralErrorLine(error) ==
    LET error_str == Lower(error) IN
    IF Contains(error_str, W_credentials) \/ Contains(error_str, W_token)
    THEN L_SysAuth
    ELSE L_SysUnexpected \o error_str \o << "." >>

\* line 201
TelegramConfigured(e) == Truthy(e.TELEGRAM_TOKEN) /\ Truthy(e.TELEGRAM_CHAT_ID)

----------------------------------------------------------------------------
(* The polling loop.                                                       *)

\* The orders in which the provider can return the messages of S
Perms(S) ==
    { q \in [1..Cardinality(S) -> S] :
        \A i, j \in 1..Cardinality(S) : q[i] = q[j] => i = j }

\* The configurations of the notification channel: both values set, no
\* token, an empty chat id
EnvValues ==
    { [ TELEGRAM_TOKEN |-> Some(<< "123:abc" >>), TELEGRAM_CHAT_ID |-> Some(<< "42" >>) ],
      [ TELEGRAM_TOKEN |-> None, TELEGRAM_CHAT_ID |-> Some(<< "42" >>) ],
      [ TELEGRAM_TOKEN |-> Some(<< "123:abc" >>), TELEGRAM_CHAT_ID |-> Some(<<>>) ] }

Bump(n) == IF n < MaxCount THEN n + 1 ELSE MaxCount

Event(op, id, ok) == [ op |-> op, id |-> id, ok |-> ok ]

\* The loop's own variables before an iteration.  Every one of them is
\* assigned in an iteration before it is read there (lines 64, 70-87, 126-141,
\* 145-148, 210-214), so a value left by the iteration before is never seen:
\* Sleep sets them back, which keeps the states of two iterations apart only
\* by the mailbox.  console holds the lines the latest step printed, outbox
\* the payload of the latest successful send of the iteration.
Fresh ==
    /\ unread_messages = <<>>
    /\ idx = 0
    /\ received_time_wib = <<>>
    /\ body_preview = <<>>
    /\ reply_text = <<>>
    /\ reply_subject = <<>>
    /\ mime_msg = NoMime
    /\ telegram_report = <<>>
    /\ console = <<>>
    /\ outbox = NoPayload
    /\ ai_error = None
    /\ general_error = None
    /\ trace = <<>>

\* line 268: the same values, set by the step that ends an iteration
StartOver ==
    /\ unread_messages' = <<>>
    /\ idx' = 0
    /\ msg' = BlankMsg
    /\ received_time_wib' = <<>>
    /\ body_preview' = <<>>
    /\ reply_text' = <<>>
    /\ reply_subject' = <<>>
    /\ mime_msg' = NoMime
    /\ telegram_report' = <<>>
    /\ console' = <<>>
    /\ outbox' = NoPayload
    /\ ai_error' = None
    /\ general_error' = None
    /\ trace' = <<>>

Init ==
    /\ pc = "fetch"
    /\ mailbox = [m \in MsgIds |-> "none"]
    /\ env \in EnvValues
    /\ sentCount = [m \in MsgIds |-> 0]
    /\ msg = BlankMsg
    /\ Fresh

\* A variant of Caught: the except clause does not match the error, which
\* ends the process.
CaughtEscapes(e) ==
    /\ general_error' = Some(e)
    /\ console' = console
    /\ pc' = "terminated"

\* lines 62 and 256-262, then the loop's way to line 268: an error raised in
\* the try block is caught by the handler of the iteration, which prints its
\* line; the loop then sleeps.  general_error keeps the error until the end
\* of the sleep.
Caught(e) ==
    /\ general_error' = Some(e)
    /\ console' = << GeneralErrorLine(e) >>
    /\ pc' = "sleep"

\* A message arrives in the mailbox (the environment).
Arrive ==
    /\ \E m \in MsgIds :
         /\ mailbox[m] = "none"
         /\ mailbox' = [mailbox EXCEPT ![m] = "unread"]
    /\ UNCHANGED << pc, env, unread_messages, idx, msg, received_time_wib,
                    body_preview, reply_text, reply_subject, mime_msg,
                    telegram_report, console, outbox, sentCount, ai_error,
                    general_error, trace >>

\* lines 64-68: fetch the unread messages; an error of the provider leaves the
\* try block
FetchUnread ==
    /\ pc = "fetch"
    /\ \/ \E e \in MailErrors :
            /\ Caught(e)
            /\ trace' = Append(trace, Event("fetch", 0, FALSE))
            /\ UNCHANGED << unread_messages, idx >>
       \/ \E q \in Perms({ m \in MsgIds : mailbox[m] = "unread" }) :
            /\ unread_messages' = q
            /\ trace' = Append(trace, Event("fetch", 0, TRUE))
            /\ UNCHANGED general_error
            /\ IF q = <<>>
               THEN /\ console' = << L_InboxClean >>
                    /\ pc' = "sleep"
                    /\ idx' = idx
               ELSE /\ console' = <<>>
                    /\ pc' = "generate"
                    /\ idx' = 1
    /\ UNCHANGED << mailbox, env, msg, received_time_wib, body_preview,
                    reply_text, reply_subject, mime_msg, telegram_report,
                    outbox, sentCount, ai_error >>

\* lines 89-95 and 115: the lines printed for a new message
Banner(m, received, preview) ==
    << << "NEW EMAIL DETECTED!" >>,
       << "Date   : " >> \o received,
       << "From   : " >> \o m.sender,
       << "Subject: " >> \o m.subject,
       << "Body   : " >> \o preview,
       L_Thinking >>

\* lines 70-141: take the next message, print its preview and ask the model
\* for the reply text; an error of the model call is caught here.  What the
\* message before left in reply_subject, mime_msg, telegram_report and outbox
\* is dropped: the loop body assigns them (lines 145, 148, 214) before it
\* reads them.
GenerateReply ==
    /\ pc = "generate"
    /\ LET m == Inbound(unread_messages[idx]) IN
         /\ msg' = m
         /\ received_time_wib' = ReceivedTime(m.date)
         /\ body_preview' = Preview(m.plain, ConsolePreviewLen)
         /\ \/ \E r \in AiResponses :
                 /\ reply_text' = ValidatedReply(r)
                 /\ ai_error' = None
                 /\ console' = Banner(m, received_time_wib', body_preview')
            \/ \E e \in AiErrors :
                 /\ reply_text' = AiErrorReply(e)
                 /\ ai_error' = Some(e)
                 /\ console' = Append(Banner(m, received_time_wib', body_preview'),
                                      AiErrorLine(e))
         /\ trace' = Append(trace, Event("generate", m.id, TRUE))
    /\ reply_subject' = <<>>
    /\ mime_msg' = NoMime
    /\ telegram_report' = <<>>
    /\ outbox' = NoPayload
    /\ pc' = "send"
    /\ UNCHANGED << mailbox, env, unread_messages, idx, sentCount, general_error >>

\* A variant of SendReply: an error of the send call is swallowed and the
\* loop goes on to mark the message read.
SendReplySwallows ==
    /\ pc = "send"
    /\ reply_subject' = ReplySubject(msg.subject)
    /\ mime_msg' = Mime(msg, ReplySubject(msg.subject), reply_text)
    /\ console' = <<>>
    /\ pc' = "mark"
    /\ \/ /\ outbox' = Payload(msg, mime_msg')
          /\ sentCount' = [sentCount EXCEPT ![msg.id] = Bump(@)]
          /\ trace' = Append(trace, Event("send", msg.id, TRUE))
       \/ /\ trace' = Append(trace, Event("send", msg.id, FALSE))
          /\ UNCHANGED << outbox, sentCount >>
    /\ UNCHANGED << mailbox, env, unread_messages, idx, msg, received_time_wib,
                    body_preview, reply_text, telegram_report, ai_error,
                    general_error >>

\* lines 143-192: compose the reply and send it; an error of the send call
\* leaves the try block
SendReply ==
    /\ pc = "send"
    /\ reply_subject' = ReplySubject(msg.subject)
    /\ mime_msg' = Mime(msg, ReplySubject(msg.subject), reply_text)
    /\ \/ /\ outbox' = Payload(msg, mime_msg')
          /\ sentCount' = [sentCount EXCEPT ![msg.id] = Bump(@)]
          /\ trace' = Append(trace, Event("send", msg.id, TRUE))
          /\ console' = <<>>
          /\ pc' = "mark"
          /\ UNCHANGED general_error
       \/ \E e \in MailErrors :
            /\ Caught(e)
            /\ trace' = Append(trace, Event("send", msg.id, FALSE))
            /\ UNCHANGED << outbox, sentCount >>
    /\ UNCHANGED << mailbox, env, unread_messages, idx, msg, received_time_wib,
                    body_preview, reply_text, telegram_report, ai_error >>

\* lines 195-196: mark the message read; an error leaves the try block
MarkAsRead ==
    /\ pc = "mark"
    /\ \/ /\ mailbox' = [mailbox EXCEPT ![msg.id] = "read"]
          /\ trace' = Append(trace, Event("mark", msg.id, TRUE))
          /\ console' = << L_Replied >>
          /\ pc' = "notify"
          /\ UNCHANGED general_error
       \/ \E e \in MailErrors :
            /\ Caught(e)
            /\ trace' = Append(trace, Event("mark", msg.id, FALSE))
            /\ UNCHANGED mailbox
    /\ UNCHANGED << env, unread_messages, idx, msg, received_time_wib,
                    body_preview, reply_text, reply_subject, mime_msg,
                    telegram_report, outbox, sentCount, ai_error >>

\* line 70: the for loop takes the next message, or ends (line 268 follows)
NextMessage ==
    IF idx < Len(unread_messages)
    THEN idx' = idx + 1 /\ pc' = "generate"
    ELSE idx' = idx /\ pc' = "sleep"

\* A variant of Notify: the POST is not wrapped in its try block, and an
\* error it raises reaches the handler of the iteration.
NotifyUnguarded ==
    /\ pc = "notify"
    /\ ~TelegramConfigured(env)
          => /\ console' = << L_TgMissing >>
             /\ trace' = Append(trace, Event("skip", msg.id, TRUE))
             /\ NextMessage
             /\ UNCHANGED << body_preview, telegram_report, general_error >>
    /\ TelegramConfigured(env)
          => /\ body_preview' = Preview(msg.plain, TelegramPreviewLen)
             /\ telegram_report' =
                    Report(msg, received_time_wib, body_preview', reply_text)
             /\ trace' = Append(trace, Event("post", msg.id, TRUE))
             /\ \/ \E status_code \in PostStatuses :
                     /\ console' = << PostStatusLine(status_code) >>
                     /\ NextMessage
                     /\ UNCHANGED general_error
                \/ \E e \in PostErrors :
                     /\ Caught(e)
                     /\ idx' = idx
    /\ UNCHANGED << mailbox, env, unread_messages, msg, received_time_wib,
                    reply_text, reply_subject, mime_msg, outbox, sentCount,
                    ai_error >>

\* lines 201-254: report to Telegram when it is configured; nothing raised by
\* the POST leaves this step
Notify ==
    /\ pc = "notify"
    /\ IF ~TelegramConfigured(env)
       THEN /\ console' = << L_TgMissing >>
            /\ trace' = Append(trace, Event("skip", msg.id, TRUE))
            /\ UNCHANGED << body_preview, telegram_report >>
       ELSE /\ body_preview' = Preview(msg.plain, TelegramPreviewLen)
            /\ telegram_report' =
                   Report(msg, received_time_wib, body_preview', reply_text)
            /\ \/ \E status_code \in PostStatuses :
                    /\ console' = << PostStatusLine(status_code) >>
                    /\ trace' = Append(trace, Event("post", msg.id, TRUE))
               \/ \E e \in PostErrors :
                    /\ console' = << PostErrorLine(e) >>
                    /\ trace' = Append(trace, Event("post", msg.id, TRUE))
    /\ NextMessage
    /\ UNCHANGED << mailbox, env, unread_messages, msg, received_time_wib,
                    reply_text, reply_subject, mime_msg, outbox, sentCount,
                    ai_error, general_error >>

\* line 268, then line 61: sleep, then the next iteration
Sleep ==
    /\ pc = "sleep"
    /\ pc' = "fetch"
    /\ StartOver
    /\ UNCHANGED << mailbox, env, sentCount >>

\* The steps of the program
Step ==
    \/ FetchUnread
    \/ GenerateReply
    \/ SendReply
    \/ MarkAsRead
    \/ Notify
    \/ Sleep

Next == Step \/ Arrive

Spec == Init /\ [][Next]_vars

\* The program is scheduled: a step that can be taken is taken.
LiveSpec == Spec /\ WF_vars(Step)

TypeOK ==
    /\ pc \in { "fetch", "generate", "send", "mark", "notify", "sleep",
                "subject", "subject_once", "subject_twice",
                "thread", "thread_done",
                "preview", "preview_console", "preview_notify" }
    /\ mailbox \in [MsgIds -> { "none", "unread", "read" }]
    /\ env \in EnvValues
    /\ idx \in 0..NMsgs
    /\ sentCount \in [MsgIds -> 0..MaxCount]

----------------------------------------------------------------------------
(* The data shaping on its own: the same operators, applied to messages    *)
(* drawn from larger sets than the mailbox of the loop holds.              *)

EnvConfigured ==
    [ TELEGRAM_TOKEN |-> Some(<< "123:abc" >>), TELEGRAM_CHAT_ID |-> Some(<< "42" >>) ]

\* Everything but pc and msg, as before the first iteration
Detached ==
    /\ mailbox = [m \in MsgIds |-> "none"]
    /\ env = EnvConfigured
    /\ sentCount = [m \in MsgIds |-> 0]
    /\ Fresh

SubjectAtoms == { "R", "e", ":", " ", "E", "x" }

\* The subjects of at most n atoms
RECURSIVE SubjectsUpTo(_)
SubjectsUpTo(n) ==
    IF n = 0 THEN { <<>> }
    ELSE LET shorter == SubjectsUpTo(n - 1) IN
         shorter \cup { Append(t, a) : t \in shorter, a \in SubjectAtoms }

InitSubject ==
    /\ pc = "subject"
    /\ msg \in { [BlankMsg EXCEPT !.subject = t] : t \in SubjectsUpTo(MaxSubjLen) }
    /\ Detached

\* lines 145-151: the subject of the reply, put in the MIME message
NormalizeSubject ==
    /\ pc = "subject"
    /\ reply_subject' = ReplySubject(msg.subject)
    /\ mime_msg' = [mime_msg EXCEPT !.subject = reply_subject']
    /\ pc' = "subject_once"
    /\ UNCHANGED << mailbox, env, unread_messages, idx, msg, received_time_wib,
                    body_preview, reply_text, telegram_report, console, outbox,
                    sentCount, ai_error, general_error, trace >>

\* line 145 again, on the subject it produced (the reply to a reply)
NormalizeAgain ==
    /\ pc = "subject_once"
    /\ reply_subject' = ReplySubject(reply_subject)
    /\ pc' = "subject_twice"
    /\ UNCHANGED << mailbox, env, unread_messages, idx, msg, received_time_wib,
                    body_preview, reply_text, mime_msg, telegram_report, console,
                    outbox, sentCount, ai_error, general_error, trace >>

NextSubject == NormalizeSubject \/ NormalizeAgain

SpecSubject == InitSubject /\ [][NextSubject]_vars

\* What a header of the original message can hold: nothing, an empty
\* value, or a value of its own
HeaderValues(k) ==
    { None, Some(<<>>) } \cup
    ( CASE k = "Message-ID" -> { Some(<< "<M@x>" >>) }
        [] k = "message-id" -> { Some(<< "<m@x>" >>) }
        [] k = "References" -> { Some(<< "<A@x>", " ", "<B@x>" >>) }
        [] OTHER -> { Some(<< "<c@x>" >>) } )

HeaderMaps ==
    { h \in [HeaderKeys -> UNION { HeaderValues(k) : k \in HeaderKeys }] :
        \A k \in HeaderKeys : h[k] \in HeaderValues(k) }

InitThread ==
    /\ pc = "thread"
    /\ msg \in { [Inbound(1) EXCEPT !.headers = h] : h \in HeaderMaps }
    /\ Detached

\* lines 145-180: compose the reply to msg
ComposeReply ==
    /\ pc = "thread"
    /\ reply_subject' = ReplySubject(msg.subject)
    /\ mime_msg' = Mime(msg, ReplySubject(msg.subject), EmptyReplyText)
    /\ reply_text' = EmptyReplyText
    /\ pc' = "thread_done"
    /\ UNCHANGED << mailbox, env, unread_messages, idx, msg, received_time_wib,
                    body_preview, telegram_report, console, outbox, sentCount,
                    ai_error, general_error, trace >>

NextThread == ComposeReply

SpecThread == InitThread /\ [][NextThread]_vars

BodyAtoms == << "a", ".", "\n" >>

\* A body of n atoms
Body(n, shift) == [i \in 1..n |-> BodyAtoms[((i + shift) % 3) + 1]]

InitPreview ==
    /\ pc = "preview"
    /\ msg \in { [BlankMsg EXCEPT !.plain = Body(n, shift)] :
                    n \in 0..MaxBodyLen, shift \in 0..2 }
    /\ Detached

\* lines 87 and 94: the preview printed to the console
ConsolePreview ==
    /\ pc = "preview"
    /\ body_preview' = Preview(msg.plain, ConsolePreviewLen)
    /\ console' = << << "Body   : " >> \o body_preview' >>
    /\ pc' = "preview_console"
    /\ UNCHANGED << mailbox, env, unread_messages, idx, msg, received_time_wib,
                    reply_text, reply_subject, mime_msg, telegram_report, outbox,
                    sentCount, ai_error, general_error, trace >>

\* lines 210-222: the preview of the Telegram report
NotifyPreview ==
    /\ pc = "preview_console"
    /\ body_preview' = Preview(msg.plain, TelegramPreviewLen)
    /\ telegram_report' = Report(msg, received_time_wib, body_preview', reply_text)
    /\ pc' = "preview_notify"
    /\ UNCHANGED << mailbox, env, unread_messages, idx, msg, received_time_wib,
                    reply_text, reply_subject, mime_msg, console, outbox,
                    sentCount, ai_error, general_error, trace >>

NextPreview == ConsolePreview \/ NotifyPreview

SpecPreview == InitPreview /\ [][NextPreview]_vars

----------------------------------------------------------------------------
(* Reading the trace of an iteration.                                      *)

\* The places of the trace that hold the event
Places(op, id, ok) ==
    { i \in 1..Len(trace) : trace[i] = Event(op, id, ok) }

\* The place of message id in the fetched list (0 when it is not in it)
PlaceInBatch(id) ==
    IF \E k \in 1..Len(unread_messages) : unread_messages[k] = id
    THEN CHOOSE k \in 1..Len(unread_messages) : unread_messages[k] = id
    ELSE 0

\* Before place i the reply to id was sent and id was then marked read
DoneBefore(id, i) ==
    \E j1, j2 \in 1..(i - 1) :
        /\ j1 < j2
        /\ trace[j1] = Event("send", id, TRUE)
        /\ trace[j2] = Event("mark", id, TRUE)

LastEvent == trace[Len(trace)]

MessageOps == { "generate", "send", "mark", "post", "skip" }

----------------------------------------------------------------------------
(* Claims about the polling loop.                                          *)

\* C1: when the model call raised an error for the message, the reply text
\* is the fixed, non-empty fallback text; the loop goes on to send it; the
\* reply that was sent carries it as its body; the message is then marked
\* read; the error text is neither in the reply nor in the report posted to
\* Telegram; and an error caught around the iteration is never that error:
\* it comes from the send or the marking.
AiFailureStillReplies ==
    ai_error.has =>
        /\ reply_text = FallbackText
        /\ Len(reply_text) > 0
        /\ ~Contains(reply_text, ai_error.val)
        /\ pc = "send" => LastEvent = Event("generate", msg.id, TRUE)
        /\ Places("send", msg.id, TRUE) # {} =>
               /\ outbox.raw.to = msg.sender
               /\ outbox.raw.body = FallbackText
               /\ ~Contains(outbox.raw.body, ai_error.val)
        /\ Places("mark", msg.id, TRUE) # {} =>
               /\ Places("send", msg.id, TRUE) # {}
               /\ mailbox[msg.id] = "read"
        /\ Places("post", msg.id, TRUE) # {} =>
               /\ Contains(telegram_report, FallbackText)
               /\ ~Contains(telegram_report, ai_error.val)
        /\ general_error.has =>
               /\ general_error.val \notin AiErrors
               /\ LastEvent.op \in { "send", "mark" }
               /\ ~LastEvent.ok

\* C1 witness: the model call failed, the fallback reply was sent, the
\* message was marked read and the report was posted.
AiFailureReported ==
    /\ ai_error.has
    /\ trace # <<>>
    /\ LastEvent = Event("post", msg.id, TRUE)
    /\ outbox.raw.body = FallbackText

\* C2: within an iteration the messages are handled one at a time in the
\* order of the fetched list: a message is marked read only after its reply
\* was sent, no step of a message happens before every message ahead of it
\* in the list was replied to and marked read, and no step of a message
\* follows a step of a later one.  A message that is read was replied to.
OneMessageAtATime ==
    /\ \A i \in 1..Len(trace) :
         trace[i].op \in MessageOps =>
            /\ PlaceInBatch(trace[i].id) > 0
            /\ trace[i].op = "mark" =>
                  \E j \in 1..(i - 1) : trace[j] = Event("send", trace[i].id, TRUE)
            /\ \A k \in 1..(PlaceInBatch(trace[i].id) - 1) :
                  DoneBefore(unread_messages[k], i)
            /\ \A j \in 1..(i - 1) :
                  trace[j].op \in MessageOps =>
                      PlaceInBatch(trace[j].id) <= PlaceInBatch(trace[i].id)
    /\ \A m \in MsgIds : mailbox[m] = "read" => sentCount[m] >= 1

\* C2 witness: the second message of a list of two was replied to and marked.
SecondMessageDone ==
    /\ Len(unread_messages) = 2
    /\ Places("mark", unread_messages[2], TRUE) # {}

\* C3: no message is sent more than one reply, whatever fails and however
\* many iterations run.
AtMostOneReply ==
    \A m \in MsgIds : sentCount[m] <= 1

\* C4: an error raised by the fetch, the send or the marking is caught by
\* the handler of the iteration, which prints its line and lets the loop go
\* to its sleep; and whatever happened, the loop fetches again.
NoErrorIsFatal ==
    /\ [][ (general_error'.has /\ ~general_error.has) =>
              (pc' = "sleep" /\ console' = << GeneralErrorLine(general_error'.val) >>) ]_vars
    /\ []<>(pc = "fetch")

\* C4 witness: the marking failed after the reply was sent, the handler ran
\* and the loop sleeps.
ErrorHandledAndSleeping ==
    /\ pc = "sleep"
    /\ general_error.has
    /\ console = << GeneralErrorLine(general_error.val) >>
    /\ LastEvent = Event("mark", msg.id, FALSE)

\* C5: when the notification step has run for a message (skipped or posted,
\* whatever the POST answered or raised), the message was replied to and
\* marked read before it, at most one POST was made for it, no error is on
\* its way to the handler, and the loop is at the next message of the list,
\* or at the sleep after the last one.
NotifyNeverChangesOutcome ==
    \A i \in 1..Len(trace) :
        trace[i].op \in { "post", "skip" } =>
            LET id == trace[i].id
                k == PlaceInBatch(id)
            IN  /\ DoneBefore(id, i)
                /\ mailbox[id] = "read"
                /\ Cardinality(Places("post", id, TRUE)) <= 1
                /\ (trace[i].op = "skip") <=> ~TelegramConfigured(env)
                /\ i < Len(trace) =>
                       /\ k < Len(unread_messages)
                       /\ trace[i + 1] = Event("generate", unread_messages[k + 1], TRUE)
                /\ i = Len(trace) =>
                       /\ ~general_error.has
                       /\ IF k < Len(unread_messages)
                          THEN pc = "generate" /\ idx = k + 1
                          ELSE pc = "sleep"

\* C5 witness: the POST for the first message raised a timeout and the loop
\* is at the second message.
PostFailedLoopGoesOn ==
    /\ pc = "generate"
    /\ idx = 2
    /\ console = << L_TgTimeout >>
    /\ LastEvent = Event("post", unread_messages[1], TRUE)

\* C6: the line the handler of the iteration prints does not hold the text
\* of the error it caught.
HandlerHidesErrorText ==
    (pc = "sleep" /\ general_error.has) =>
        \A i \in 1..Len(console) : ~Contains(console[i], general_error.val)

----------------------------------------------------------------------------
(* Claims about the data shaping.                                          *)

\* The Message-ID the reply refers to: the value under "Message-ID", or else
\* the one under "message-id"; empty when neither key holds a text.
IdOf(h) ==
    IF h["Message-ID"].has /\ h["Message-ID"].val # <<>> THEN h["Message-ID"].val
    ELSE IF h["message-id"].has THEN h["message-id"].val
    ELSE <<>>

\* The References chain of the original message, the same way.
ChainOf(h) ==
    IF h["References"].has /\ h["References"].val # <<>> THEN h["References"].val
    ELSE IF h["references"].has THEN h["references"].val
    ELSE <<>>

\* C7: the reply to a message with no Message-ID (absent or empty under both
\* keys) has neither an In-Reply-To nor a References header.
NoIdNoThreading ==
    (pc = "thread_done" /\ IdOf(msg.headers) = <<>>) =>
        /\ ~mime_msg.InReplyTo.has
        /\ ~mime_msg.References.has

\* C7 witness: a reply was composed to a message with a References chain and
\* no Message-ID.
RepliedWithoutId ==
    /\ pc = "thread_done"
    /\ IdOf(msg.headers) = <<>>
    /\ ChainOf(msg.headers) # <<>>

\* C8 as stated: whenever the message has a References chain, the reply's
\* References is that chain, a space and the Message-ID, whether or not the
\* message has a Message-ID; for a message with a Message-ID and no
\* References chain it is the Message-ID alone, and In-Reply-To is the
\* Message-ID.
ReferencesAppendedAlways ==
    pc = "thread_done" =>
        LET h == msg.headers IN
        /\ ChainOf(h) # <<>> =>
               mime_msg.References = Some(ChainOf(h) \o << " " >> \o IdOf(h))
        /\ (ChainOf(h) = <<>> /\ IdOf(h) # <<>>) =>
               mime_msg.References = Some(IdOf(h))
        /\ IdOf(h) # <<>> =>
               mime_msg.InReplyTo = Some(IdOf(h))

\* C8 amended: for a message with a non-empty Message-ID, In-Reply-To is that
\* Message-ID, and References is the original chain, a space and the
\* Message-ID when the chain is not empty, and the Message-ID alone when the
\* message has no References header or an empty one.
ReferencesAppended ==
    (pc = "thread_done" /\ IdOf(msg.headers) # <<>>) =>
        LET h == msg.headers IN
        /\ mime_msg.InReplyTo = Some(IdOf(h))
        /\ ChainOf(h) # <<>> =>
               mime_msg.References = Some(ChainOf(h) \o << " " >> \o IdOf(h))
        /\ ChainOf(h) = <<>> =>
               mime_msg.References = Some(IdOf(h))

\* C8 witness: a reply was composed to a message with a Message-ID and a
\* References chain.
RepliedInsideThread ==
    /\ pc = "thread_done"
    /\ IdOf(msg.headers) # <<>>
    /\ ChainOf(msg.headers) # <<>>

\* C9: a subject that starts with "Re:" is left as it is, any other subject
\* gets "Re: " in front, and the rule applied to its own result gives that
\* result again.
SubjectRuleIdempotent ==
    /\ pc \in { "subject_once", "subject_twice" } =>
          mime_msg.subject =
              IF Len(msg.subject) >= 3 /\ SubSeq(msg.subject, 1, 3) = << "R", "e", ":" >>
              THEN msg.subject
              ELSE << "R", "e", ":", " " >> \o msg.subject
    /\ pc = "subject_twice" => reply_subject = mime_msg.subject

\* C9 witness: the rule was applied twice to a subject that needed the prefix.
PrefixedThenReapplied ==
    /\ pc = "subject_twice"
    /\ Len(msg.subject) >= 3
    /\ SubSeq(msg.subject, 1, 3) # << "R", "e", ":" >>

\* preview shows plain cut at n: plain itself when it has at most n atoms,
\* and otherwise its first n atoms and three dots
CutAt(plain, preview, n) ==
    IF Len(plain) <= n
    THEN preview = plain
    ELSE /\ Len(preview) = n + 3
         /\ \A i \in 1..n : preview[i] = plain[i]
         /\ \A i \in (n + 1)..(n + 3) : preview[i] = "."

\* C10: the console preview is the body cut at 100, the notification preview
\* the body cut at 500.
PreviewsAreCut ==
    /\ pc = "preview_console" =>
          /\ CutAt(msg.plain, body_preview, 100)
          /\ console = << << "Body   : " >> \o body_preview >>
    /\ pc = "preview_notify" =>
          /\ CutAt(msg.plain, body_preview, 500)
          /\ Contains(telegram_report, << "Original Message:" >> \o body_preview)

\* C10 witness: both previews were made of a body of more than 500 atoms.
LongBodyPreviewed ==
    /\ pc = "preview_notify"
    /\ Len(msg.plain) > 500

====
